---- MODULE Spec2Model ----
(***************************************************************************)
(* sunbeam-migrate: the migration manager (manager.py), the migration      *)
(* store (db/api.py) and the handler calls the manager makes, as a state   *)
(* machine.  Several operator processes share one store and one            *)
(* destination cloud.                                                      *)
(***************************************************************************)
EXTENDS Naturals, Sequences, FiniteSets, TLC

----------------------------------------------------------------------------
(* constants.py *)
STATUS_IN_PROGRESS == "in-progress"
STATUS_COMPLETED == "completed"
STATUS_FAILED == "failed"
STATUS_SOURCE_CLEANUP_FAILED == "source-cleanup-failed"

Statuses ==
    {STATUS_IN_PROGRESS, STATUS_COMPLETED, STATUS_FAILED,
     STATUS_SOURCE_CLEANUP_FAILED}

\* Python's None, for the nullable string columns and unset locals.  A null
\* destination id is written 0: the destination cloud's ids start at 1.
None == "None"

----------------------------------------------------------------------------
(* Bounds of the model *)

\* Rows the store may ever hold (uuids are never reused).
MaxRecords == 2

\* The same, in the runs that migrate the resources with dependencies.
MaxDepRecords == 3

\* Longest listing a handler returns to a batch.
MaxBatch == 2

\* Concurrent invocations of the tool against the same store.
Procs == {"p1", "p2"}

\* The invocations that may run batches (the others run individual
\* migrations only).
BatchProcs == {"p1"}

\* Resource types with a registered handler.
ResourceTypes == {"network", "zone"}

\* Ids of the resources of the source cloud.
SourceIds == {"a", "b"}

\* The resources of the source cloud, as (type, id): two networks, and a zone
\* whose id is also the id of a network (the clouds keep ids unique per
\* type only).  Migrations are asked for these resources.
SourceResources == {<<"network", "a">>, <<"network", "b">>, <<"zone", "a">>}

\* A second source cloud, with resources that depend on others: a network n,
\* two subnets s1 and s2 on it, and a router r (without external gateway) with
\* an interface on each subnet.
DepResources ==
    {<<"network", "n">>, <<"subnet", "s1">>, <<"subnet", "s2">>,
     <<"router", "r">>}

\* Two resources of handlers that declare each other as associated resource
\* (the cycle of the specification's cycle-safety scenario; no handler of the
\* repository does).
CycleResources == {<<"A", "x">>, <<"B", "y">>}

\* More of the second cloud: an external network x with its subnet xs, a
\* router g whose external gateway is on x with a fixed IP on xs (and no
\* internal interface), and a floating IP f of network n, with subnet s2 as
\* its subnet_id and an address in the range of s1.
GatewayResources ==
    {<<"network", "x">>, <<"subnet", "xs">>, <<"router", "g">>}

FloatingIpResources == {<<"floating-ip", "f">>}

\* The rows a run may add are bounded by the cloud it migrates.
RecordBound(t, id) ==
    IF <<t, id>> \in DepResources \cup CycleResources \cup GatewayResources
    THEN MaxDepRecords
    ELSE MaxRecords

\* The invocation that migrates the second cloud.
DepProcs == {"p1"}

----------------------------------------------------------------------------
VARIABLES
    store,         \* the migrations table: a set of rows
    nextUuid,      \* uuid of the next row
    destination,   \* the resources of the destination cloud
    frame          \* per process: where it is and the locals of its call

vars == <<store, nextUuid, destination, frame>>

\* The fields of frame[p]:
\*   pc              "idle" | "batch" | "indiv" | "handler" | "returned" | "raised"
\*                   | "connect" | "start"
\*   kind            None | "individual" | "batch" | "connect" | "start"
\*                   | "list" | "delete" | "restore": the call or the command
\*                   the operator made
\*   resource_type   the call's resource_type
\*   resource_id     the resource at hand (the batch's loop variable)
\*   migration       uuid of the models.Migration object held (0: none)
\*   destination_id  the handler's return value (0: none)
\*   resource_ids    the candidates the batch has not examined yet
\*   dry_run         the batch's dry_run flag
\*   logged          the loop's last log line: None | "skipping" | "dry-run"
\*   outcome         how the last call ended, as its caller saw it:
\*                   None | "returned" | "raised"
\*   result          the value the last call returned to its caller
\*   options         the flags given on the command line of a start, list,
\*                   delete or restore command
\*   filters         the filters dictionary such a command built
\*   listed          the rows the last list command was handed by the store
\*   error           the exception the manager or the handler's filter
\*                   validation raised before any row was made: None |
\*                   "UnknownResourceType" | "InvalidInput"
NoFrame ==
    [pc |-> "idle", kind |-> None, resource_type |-> None,
     resource_id |-> None, migration |-> 0, destination_id |-> 0,
     resource_ids |-> <<>>, dry_run |-> FALSE, logged |-> None,
     outcome |-> None, result |-> None,
     options |-> {}, filters |-> <<>>, listed |-> {}, error |-> None]

\* The call of p is over: its locals are gone, its caller sees `outcome`.
\* Neither method of the manager has a return statement: a call that
\* returns, returns None.
Ended(p, outcome) == [frame EXCEPT ![p] = [NoFrame EXCEPT !.outcome = outcome]]

----------------------------------------------------------------------------
(* Handlers *)

\* get_service_type() of each handler.
ServiceType(t) == IF t = "zone" THEN "designate" ELSE "neutron"

\* FindsExisting with the find_zone lookup left out of the zone handler.
FindsExisting_Never(t) == FALSE

\* Whether the handler first looks for an equivalent destination resource
\* (by name) and returns it instead of creating one: the zone handler does,
\* the network handler always creates.
FindsExisting(t) == t = "zone"

\* Whether the handler still talks to the clouds after the destination
\* resource exists, so that it may raise with the resource left behind: the
\* zone handler copies the recordsets after creating the zone, the network
\* handler returns right after create_network.
WorksAfterCreate(t) == t = "zone"

\* The destination resources equivalent to source resource (t, id): same type,
\* same name (a resource's name is modelled by its source id).
Equivalent(t, id) == {r \in destination : r.resource_type = t /\ r.name = id}

\* source_subnet.network_id: the network of a subnet of the source cloud.
NetworkOf(id) == IF id = "xs" THEN "x" ELSE "n"

\* The lists with the elements of the set S, each once.
Orders(S) ==
    {seq \in [1..Cardinality(S) -> S] :
        \A i, j \in DOMAIN seq : i # j => seq[i] # seq[j]}

\* a < b on the ids of the subnets, as Python compares the strings.
Before(a, b) ==
    <<a, b>> \in {<<"s1", "s2">>, <<"s1", "xs">>, <<"s2", "xs">>}

\* sorted(S) on a set of subnet ids.
Sorted(S) ==
    CHOOSE seq \in Orders(S) :
        \A i, j \in DOMAIN seq : i < j => Before(seq[i], seq[j])

\* FloatingIPHandler.get_associated_resources: the floating network, then
\* the subnet of the floating IP and the subnet its address falls in, sorted
\* by id.
FloatingIpAssociated(id) ==
    LET subnet_ids == {"s2"} \cup {"s1"}
    IN  << <<"network", "n">> >>
           \o [i \in 1..Cardinality(subnet_ids) |->
                  <<"subnet", Sorted(subnet_ids)[i]>>]

\* The associated resources the two handlers of the cycle-safety scenario
\* declare: each the other's resource.
CycleAssociated(t, id) ==
    IF t = "A" THEN << <<"B", "y">> >> ELSE << <<"A", "x">> >>

\* get_associated_resources(resource_id) of the handler of type t, the
\* resources that must be migrated first: a subnet's network; a router's
\* external gateway network (router r has none, router g has x); a floating
\* IP's network and subnets; nothing for a network or a zone.
get_associated_resources(t, id) ==
    IF t = "subnet" THEN << <<"network", NetworkOf(id)>> >>
    ELSE IF <<t, id>> = <<"router", "g">> THEN << <<"network", "x">> >>
    ELSE IF t = "floating-ip" THEN FloatingIpAssociated(id)
    ELSE IF <<t, id>> \in CycleResources THEN CycleAssociated(t, id)
    ELSE <<>>

\* get_member_resources(resource_id) of the router handler: the subnets the
\* router has an internal interface on.  The handler collects their ids in a
\* set and lists them in the order of the set.
get_member_resources(t, id) ==
    IF <<t, id>> = <<"router", "r">> THEN {"s1", "s2"} ELSE {}

\* The subnets of the external_fixed_ips of a router's gateway
\* (external_gateway_info, lines 156-185 of the router handler).
ExternalSubnets(id) == IF id = "g" THEN {"xs"} ELSE {}

\* The row created last among rows (order_by created_at).
Latest(rows) == CHOOSE m \in rows : \A k \in rows : k.uuid <= m.uuid

\* SubnetHandler._get_migrated_network_id: the destination id of the latest
\* completed migration of the network, archived or not (0: None).
get_migrated_network_id(source_network_id) ==
    LET rows == {m \in store :
                    /\ m.resource_type = "network"
                    /\ m.source_id = source_network_id
                    /\ m.status = STATUS_COMPLETED}
    IN  IF rows = {} THEN 0 ELSE Latest(rows).destination_id

\* The destination cloud with a new resource for source resource (t, id).
\* The cloud chooses the id of the resource; any fresh id will do, and the
\* model names the resource after the migration whose handler call made it.
\* A subnet is created on the destination network the handler resolved.
Created(t, id, new) ==
    destination \cup
        {IF t = "subnet"
         THEN [id |-> new, resource_type |-> t, name |-> id,
               network_id |-> get_migrated_network_id(NetworkOf(id))]
         ELSE [id |-> new, resource_type |-> t, name |-> id]}

----------------------------------------------------------------------------
(* Store queries: db/api.py *)

\* Matches with filter_by joining its criteria by OR.
Matches_Any(m, filters) == \E k \in DOMAIN filters : m[k] = filters[k]

\* filter_by(**filters): equality on every filtered column.
Matches(m, filters) == \A k \in DOMAIN filters : m[k] = filters[k]

\* Lines 41-42 of get_migrations: archived rows are filtered out unless
\* include_archived is set.
WithArchivedFilter(include_archived, filters) ==
    IF include_archived
    THEN filters
    ELSE [k \in (DOMAIN filters) \cup {"archived"} |->
             IF k = "archived" THEN FALSE ELSE filters[k]]

\* get_migrations(include_archived, **filters), as a set of rows.
get_migrations(include_archived, filters) ==
    {m \in store : Matches(m, WithArchivedFilter(include_archived, filters))}

\* Updated with the save writing the changes to every row of the table.
Updated_All(uuid, changes) ==
    {[k \in DOMAIN m |-> IF k \in DOMAIN changes THEN changes[k] ELSE m[k]] :
        m \in store}

\* The store with the columns `changes` of row uuid overwritten
\* (migration.save() of a changed object).
Updated(uuid, changes) ==
    {IF m.uuid = uuid
     THEN [k \in DOMAIN m |-> IF k \in DOMAIN changes THEN changes[k] ELSE m[k]]
     ELSE m : m \in store}

\* RouterHandler._get_destination_id_from_db: the destination id of the
\* latest non-archived completed migration of the resource (0: NotFound is
\* raised).  Completed rows always have a destination id, so the check of
\* line 129 never fails.
get_destination_id_from_db(resource_type, source_id) ==
    LET migrations ==
            get_migrations(FALSE, [source_id |-> source_id,
                                   resource_type |-> resource_type,
                                   status |-> STATUS_COMPLETED])
    IN  IF migrations = {} THEN 0 ELSE Latest(migrations).destination_id

\* Whether the handler finds what it needs to create the destination
\* resource: the subnet handler needs the destination network (the manager
\* passes it no migrated associated resources) and raises InvalidInput
\* without it; the router handler needs the destination subnet of each
\* external fixed IP and raises NotFound ("Couldn't find migrated subnet
\* resource") without it.
FindsPrerequisites(t, id) ==
    /\ t = "subnet" => get_migrated_network_id(NetworkOf(id)) # 0
    /\ t = "router" =>
          \A src_subnet_id \in ExternalSubnets(id) :
             get_destination_id_from_db("subnet", src_subnet_id) # 0

----------------------------------------------------------------------------
Init ==
    /\ store = {}
    /\ nextUuid = 1
    /\ destination = {}
    /\ frame = [p \in Procs |-> NoFrame]

\* Resources an operator may have made on the destination cloud before any
\* migration, named like source network a and source zone a (the set-up of
\* test_migrate_keypair_skips_existing_destination).  Their ids are none of
\* those the migrations' resources get.
PreExisting ==
    {[id |-> MaxRecords + 1, resource_type |-> "network", name |-> "a"],
     [id |-> MaxRecords + 2, resource_type |-> "zone", name |-> "a"]}

\* The tool is set up against a destination cloud that is not empty.
InitExisting ==
    /\ store = {}
    /\ nextUuid = 1
    /\ destination \in SUBSET PreExisting
    /\ frame = [p \in Procs |-> NoFrame]

----------------------------------------------------------------------------
(* SunbeamMigrationManager.perform_individual_migration *)

\* Lines 25-32: the row of a new migration.
NewMigration(t, id) ==
    [uuid |-> nextUuid,
     service |-> ServiceType(t),
     resource_type |-> t,
     source_id |-> id,
     destination_id |-> 0,
     status |-> STATUS_IN_PROGRESS,
     archived |-> FALSE,
     error_message |-> None]

\* SavedNew with the save of line 33 left out: the object is only saved once
\* the handler is done.
SavedNew_Deferred(t, id) == store

\* Line 33, migration.save() of the new object: the row is inserted,
\* whatever the store already holds for the resource.
SavedNew(t, id) == store \cup {NewMigration(t, id)}

\* Lines 25-33, called from the batch loop: the models.Migration object is
\* built and saved; the handler call comes next.
CreateMigration(p, t, id) ==
    /\ nextUuid <= RecordBound(t, id)
    /\ store' = SavedNew(t, id)
    /\ nextUuid' = nextUuid + 1
    /\ frame' = [frame EXCEPT ![p] =
                    [@ EXCEPT !.pc = "handler",
                              !.resource_type = t,
                              !.resource_id = id,
                              !.migration = nextUuid,
                              !.outcome = None]]
    /\ UNCHANGED destination

\* A process calls perform_individual_migration(resource_type, resource_id)
\* with a registered type and a non-empty id (lines 16-33).
StartIndividual(p, t, id) ==
    /\ frame[p].pc = "idle"
    /\ nextUuid <= RecordBound(t, id)
    /\ store' = SavedNew(t, id)
    /\ nextUuid' = nextUuid + 1
    /\ frame' = [frame EXCEPT ![p] =
                    [NoFrame EXCEPT !.pc = "handler",
                                    !.kind = "individual",
                                    !.resource_type = t,
                                    !.resource_id = id,
                                    !.migration = nextUuid]]
    /\ UNCHANGED destination

\* factory.get_migration_handler(resource_type) finds a handler: the type is
\* one of those with a handler (the lookup fails with UnknownResourceType
\* otherwise).
Registered(t) == t \in ResourceTypes \cup {r[1] : r \in DepResources}

\* Rejected with the lookup and the test of the id always passing.
Rejected_Never(t, id) == FALSE

\* Lines 18-21: the handler lookup fails, or the id is empty and the method
\* raises InvalidInput; either way before the Migration object is built.
Rejected(t, id) == ~Registered(t) \/ id = ""

\* What callers may pass for (resource_type, resource_id): a resource of the
\* source cloud, a type nothing handles, an empty id.
CallInputs == SourceResources \cup {<<"volume", "a">>, <<"network", "">>}

\* perform_individual_migration(resource_type, resource_id), lines 16-33,
\* whatever the arguments: the call raises at line 18 or 21, or goes on to
\* build and save the row.
perform_individual_migration(p, t, id) ==
    IF Rejected(t, id)
    THEN /\ frame[p].pc = "idle"
         /\ frame' = [frame EXCEPT ![p] =
                         [NoFrame EXCEPT !.kind = "individual",
                                         !.resource_type = t,
                                         !.resource_id = id,
                                         !.outcome = "raised",
                                         !.error =
                                            IF Registered(t)
                                            THEN "InvalidInput"
                                            ELSE "UnknownResourceType"]]
         /\ UNCHANGED <<store, nextUuid, destination>>
    ELSE StartIndividual(p, t, id)

\* Line 38, the handler returns: the id of an equivalent destination resource
\* when the handler looks for one and finds it, else the id of the resource
\* it creates.
HandlerReturns(p) ==
    LET f == frame[p]
        found == IF FindsExisting(f.resource_type)
                 THEN Equivalent(f.resource_type, f.resource_id)
                 ELSE {}
    IN  /\ f.pc = "handler"
        /\ FindsPrerequisites(f.resource_type, f.resource_id)
        /\ IF found # {}
           THEN /\ \E r \in found :
                      frame' = [frame EXCEPT ![p] =
                                   [@ EXCEPT !.pc = "returned",
                                             !.destination_id = r.id]]
                /\ UNCHANGED destination
           ELSE /\ destination' =
                      Created(f.resource_type, f.resource_id, f.migration)
                /\ frame' = [frame EXCEPT ![p] =
                                [@ EXCEPT !.pc = "returned",
                                          !.destination_id = f.migration]]
        /\ UNCHANGED <<store, nextUuid>>

\* Line 38, the handler raises; `created` says whether it had created the
\* destination resource before failing.
HandlerRaises(p, created) ==
    LET f == frame[p]
    IN  /\ f.pc = "handler"
        /\ created =>
              /\ WorksAfterCreate(f.resource_type)
              /\ ~(/\ FindsExisting(f.resource_type)
                   /\ Equivalent(f.resource_type, f.resource_id) # {})
        /\ destination' =
              IF created
              THEN Created(f.resource_type, f.resource_id, f.migration)
              ELSE destination
        /\ frame' = [frame EXCEPT ![p] = [@ EXCEPT !.pc = "raised"]]
        /\ UNCHANGED <<store, nextUuid>>

\* FailedChanges with line 41 left out.
FailedChanges_NoMessage == [status |-> STATUS_FAILED]

\* Lines 40-41: what the except branch sets on the object.
FailedChanges ==
    [status |-> STATUS_FAILED, error_message |-> "Migration failed"]

\* SaveFailed with the raise of line 43 left out: the call goes on with
\* lines 45-48.
SaveFailed_FallsThrough(p) ==
    /\ frame[p].pc = "raised"
    /\ store' = Updated(frame[p].migration, FailedChanges)
    /\ frame' = [frame EXCEPT ![p] = [@ EXCEPT !.pc = "returned"]]
    /\ UNCHANGED <<nextUuid, destination>>

\* Lines 39-43: the except branch marks the row failed, saves and re-raises.
\* Nothing in perform_batch_migration catches the exception, so it ends a
\* batch as well.
SaveFailed(p) ==
    /\ frame[p].pc = "raised"
    /\ store' = Updated(frame[p].migration, FailedChanges)
    /\ frame' = Ended(p, "raised")
    /\ UNCHANGED <<nextUuid, destination>>

\* CompletedChanges with line 47 left out.
CompletedChanges_NoDestination(dest) == [status |-> STATUS_COMPLETED]

\* Lines 46-47: what the success path sets on the object.
CompletedChanges(dest) ==
    [status |-> STATUS_COMPLETED, destination_id |-> dest]

\* SaveCompleted with lines 45-48 left out: the call returns as soon as the
\* handler has.
SaveCompleted_NoSave(p) ==
    /\ frame[p].pc = "returned"
    /\ frame' = Ended(p, "returned")
    /\ UNCHANGED <<store, nextUuid, destination>>

\* Lines 45-48: the row is marked completed with the handler's id and saved.
\* An individual call returns; a batch goes on with its loop.
SaveCompleted(p) ==
    LET f == frame[p]
    IN  /\ f.pc = "returned"
        /\ store' = Updated(f.migration, CompletedChanges(f.destination_id))
        /\ frame' =
              IF f.kind = "batch"
              THEN [frame EXCEPT ![p] =
                       [@ EXCEPT !.pc = "batch",
                                 !.migration = 0,
                                 !.destination_id = 0]]
              ELSE Ended(p, "returned")
        /\ UNCHANGED <<nextUuid, destination>>

----------------------------------------------------------------------------
(* SunbeamMigrationManager.perform_batch_migration *)

\* The listings handler.get_source_resource_ids may return for type t:
\* resources of that type, each at most once.
Listings(t) ==
    {ids \in UNION {[1..n -> SourceIds] : n \in 0..MaxBatch} :
        /\ \A i \in DOMAIN ids : <<t, ids[i]>> \in SourceResources
        /\ \A i, j \in DOMAIN ids : i # j => ids[i] # ids[j]}

\* The listings the subnet handler's get_source_resource_ids may return on
\* the second cloud: subnets, each at most once.
SubnetListings ==
    {ids \in UNION {[1..n -> {"s1", "s2"}] : n \in 0..MaxBatch} :
        \A i, j \in DOMAIN ids : i # j => ids[i] # ids[j]}

\* Lines 62-64: the rows that make the loop skip resource_id.
SkipQuery(resource_id) ==
    get_migrations(FALSE,
                   [source_id |-> resource_id, status |-> STATUS_COMPLETED])

\* Lines 57-59: a process calls perform_batch_migration; the handler lists
\* the candidates.
StartBatch(p, t, ids, dry) ==
    /\ frame[p].pc = "idle"
    /\ frame' = [frame EXCEPT ![p] =
                    [NoFrame EXCEPT !.pc = "batch",
                                    !.kind = "batch",
                                    !.resource_type = t,
                                    !.resource_ids = ids,
                                    !.dry_run = dry]]
    /\ UNCHANGED <<store, nextUuid, destination>>

\* get_supported_resource_filters() of the handler of type t.
get_supported_resource_filters(t) ==
    IF t = "zone" THEN {"project_id"} ELSE {"owner_id"}

\* The resource filters a batch may be given: a value for none, one or both
\* of the keys owner_id and project_id.
BatchFilters ==
    {[k \in D |-> "o"] : D \in SUBSET {"owner_id", "project_id"}}

\* validate_resource_filters passing whatever the keys.
validate_resource_filters_Any(t, resource_filters) == TRUE

\* BaseMigrationHandler._validate_resource_filters passes: every key given
\* is one of the supported filters (it raises InvalidInput otherwise).
validate_resource_filters(t, resource_filters) ==
    DOMAIN resource_filters \subseteq get_supported_resource_filters(t)

\* perform_batch_migration(resource_type, resource_filters, dry_run), lines
\* 57-59: the handler's get_source_resource_ids validates the filters
\* first and raises, or lists the candidates.
perform_batch_migration(p, t, resource_filters, ids, dry) ==
    /\ frame[p].pc = "idle"
    /\ frame' =
          [frame EXCEPT ![p] =
              IF validate_resource_filters(t, resource_filters)
              THEN [NoFrame EXCEPT !.pc = "batch",
                                   !.kind = "batch",
                                   !.resource_type = t,
                                   !.filters = resource_filters,
                                   !.resource_ids = ids,
                                   !.dry_run = dry]
              ELSE [NoFrame EXCEPT !.kind = "batch",
                                   !.resource_type = t,
                                   !.filters = resource_filters,
                                   !.dry_run = dry,
                                   !.outcome = "raised",
                                   !.error = "InvalidInput"]]
    /\ UNCHANGED <<store, nextUuid, destination>>

\* Lines 61-71: the next candidate has a completed migration; the loop logs
\* that and skips it.
BatchSkip(p) ==
    LET f == frame[p]
    IN  /\ f.pc = "batch"
        /\ f.resource_ids # <<>>
        /\ SkipQuery(Head(f.resource_ids)) # {}
        /\ frame' = [frame EXCEPT ![p] =
                        [@ EXCEPT !.resource_id = Head(f.resource_ids),
                                  !.resource_ids = Tail(f.resource_ids),
                                  !.logged = "skipping"]]
        /\ UNCHANGED <<store, nextUuid, destination>>

\* Lines 73-76: dry run, the candidate is only logged.
BatchDryRun(p) ==
    LET f == frame[p]
    IN  /\ f.pc = "batch"
        /\ f.resource_ids # <<>>
        /\ SkipQuery(Head(f.resource_ids)) = {}
        /\ f.dry_run
        /\ frame' = [frame EXCEPT ![p] =
                        [@ EXCEPT !.resource_id = Head(f.resource_ids),
                                  !.resource_ids = Tail(f.resource_ids),
                                  !.logged = "dry-run"]]
        /\ UNCHANGED <<store, nextUuid, destination>>

\* BatchMigrate with the dry_run test of line 73 left out.
BatchMigrate_IgnoresDryRun(p) ==
    LET f == frame[p]
    IN  /\ f.pc = "batch"
        /\ f.resource_ids # <<>>
        /\ SkipQuery(Head(f.resource_ids)) = {}
        /\ frame' = [frame EXCEPT ![p] =
                        [@ EXCEPT !.pc = "indiv",
                                  !.resource_id = Head(f.resource_ids),
                                  !.resource_ids = Tail(f.resource_ids),
                                  !.logged = None]]
        /\ UNCHANGED <<store, nextUuid, destination>>

\* Lines 77-78: the candidate is passed to perform_individual_migration.
BatchMigrate(p) ==
    LET f == frame[p]
    IN  /\ f.pc = "batch"
        /\ f.resource_ids # <<>>
        /\ SkipQuery(Head(f.resource_ids)) = {}
        /\ ~f.dry_run
        /\ frame' = [frame EXCEPT ![p] =
                        [@ EXCEPT !.pc = "indiv",
                                  !.resource_id = Head(f.resource_ids),
                                  !.resource_ids = Tail(f.resource_ids),
                                  !.logged = None]]
        /\ UNCHANGED <<store, nextUuid, destination>>

\* perform_individual_migration lines 16-33, called from the batch loop.
BatchCreate(p) ==
    /\ frame[p].pc = "indiv"
    /\ CreateMigration(p, frame[p].resource_type, frame[p].resource_id)

\* The loop is over: perform_batch_migration returns (None).
BatchReturn(p) ==
    /\ frame[p].pc = "batch"
    /\ frame[p].resource_ids = <<>>
    /\ frame' = Ended(p, "returned")
    /\ UNCHANGED <<store, nextUuid, destination>>

----------------------------------------------------------------------------
(* RouterHandler.connect_member_resources_to_parent *)

\* An interface of destination router `router` on destination subnet `subnet`.
Interface(router, subnet) ==
    [id |-> 0, resource_type |-> "interface", name |-> None,
     router |-> router, subnet |-> subnet]

\* Step 5 of migrateOne in the specification: once the migration of a router
\* is completed, the hook is called with the destination router and the
\* member resources the handler lists (all of them subnets).
StartConnect(p, uuid) ==
    /\ frame[p].pc = "idle"
    /\ \E m \in get_migrations(FALSE, [uuid |-> uuid,
                                        resource_type |-> "router",
                                        status |-> STATUS_COMPLETED]) :
          \E members \in
                Orders(get_member_resources("router", m.source_id)) :
             frame' = [frame EXCEPT ![p] =
                          [NoFrame EXCEPT !.pc = "connect",
                                          !.kind = "connect",
                                          !.resource_type = "router",
                                          !.resource_id = m.source_id,
                                          !.destination_id = m.destination_id,
                                          !.resource_ids = members]]
    /\ UNCHANGED <<store, nextUuid, destination>>

\* Lines 234-245: the member has no completed migration; NotFound is caught
\* and logged, the loop goes on.
ConnectNotFound(p) ==
    LET f == frame[p]
    IN  /\ f.pc = "connect"
        /\ f.resource_ids # <<>>
        /\ get_destination_id_from_db("subnet", Head(f.resource_ids)) = 0
        /\ frame' = [frame EXCEPT ![p] =
                        [@ EXCEPT !.resource_ids = Tail(f.resource_ids),
                                  !.logged = "not-found"]]
        /\ UNCHANGED <<store, nextUuid, destination>>

\* Lines 247-258: add_interface_to_router attaches the destination subnet of
\* the member to the router.
ConnectAttach(p) ==
    LET f == frame[p]
        dest_subnet_id == get_destination_id_from_db("subnet",
                                                     Head(f.resource_ids))
    IN  /\ f.pc = "connect"
        /\ f.resource_ids # <<>>
        /\ dest_subnet_id # 0
        /\ Interface(f.destination_id, dest_subnet_id) \notin destination
        /\ destination' =
              destination \cup {Interface(f.destination_id, dest_subnet_id)}
        /\ frame' = [frame EXCEPT ![p] =
                        [@ EXCEPT !.resource_ids = Tail(f.resource_ids),
                                  !.logged = "attaching"]]
        /\ UNCHANGED <<store, nextUuid>>

\* Lines 254-264: the interface exists already; add_interface_to_router
\* raises ConflictException, which is caught and logged.
ConnectConflict(p) ==
    LET f == frame[p]
        dest_subnet_id == get_destination_id_from_db("subnet",
                                                     Head(f.resource_ids))
    IN  /\ f.pc = "connect"
        /\ f.resource_ids # <<>>
        /\ dest_subnet_id # 0
        /\ Interface(f.destination_id, dest_subnet_id) \in destination
        /\ frame' = [frame EXCEPT ![p] =
                        [@ EXCEPT !.resource_ids = Tail(f.resource_ids),
                                  !.logged = "conflict"]]
        /\ UNCHANGED <<store, nextUuid, destination>>

\* Lines 254-264: add_interface_to_router raises another exception than
\* ConflictException; no except clause matches, the exception leaves the
\* loop and the hook.
ConnectError(p) ==
    LET f == frame[p]
    IN  /\ f.pc = "connect"
        /\ f.resource_ids # <<>>
        /\ get_destination_id_from_db("subnet", Head(f.resource_ids)) # 0
        /\ frame' = Ended(p, "raised")
        /\ UNCHANGED <<store, nextUuid, destination>>

\* Line 229: the loop is over, the hook returns.
ConnectReturn(p) ==
    /\ frame[p].pc = "connect"
    /\ frame[p].resource_ids = <<>>
    /\ frame' = Ended(p, "returned")
    /\ UNCHANGED <<store, nextUuid, destination>>

----------------------------------------------------------------------------
\* The process is killed in the middle of a call: nothing more is written.
Interrupt(p) ==
    /\ frame[p].pc # "idle"
    /\ frame' = Ended(p, None)
    /\ UNCHANGED <<store, nextUuid, destination>>

----------------------------------------------------------------------------
(* db/api.py: delete_migrations (soft), restore_migrations, run by an     *)
(* operator while migrations are going on                                 *)

\* The filters the delete and restore commands are given here: none (every
\* row), or a resource type and a source id.
AdminFilters ==
    {[k \in D |-> f[k]] :
        f \in [resource_type : ResourceTypes, source_id : SourceIds],
        D \in {{}, {"resource_type", "source_id"}}}

\* The same for the second cloud: none, or the network n.
DepAdminFilters ==
    {[k \in D |-> f[k]] :
        f \in {[resource_type |-> "network", source_id |-> "n"]},
        D \in {{}, {"resource_type", "source_id"}}}

\* delete_migrations(soft_delete=True, **filters): one UPDATE.
SoftDeleteMigrations(filters) ==
    /\ \E m \in store : Matches(m, filters) /\ ~m.archived
    /\ store' =
         {IF Matches(m, filters) THEN [m EXCEPT !.archived = TRUE] ELSE m :
             m \in store}
    /\ UNCHANGED <<nextUuid, destination, frame>>

\* RestoreFilter keeping the value the caller gave for archived.
RestoreFilter_KeepsCaller(filters) ==
    [k \in (DOMAIN filters) \cup {"archived"} |->
        IF k \in DOMAIN filters THEN filters[k] ELSE TRUE]

\* Line 70 of restore_migrations: the archived filter is forced to True.
RestoreFilter(filters) ==
    [k \in (DOMAIN filters) \cup {"archived"} |->
        IF k = "archived" THEN TRUE ELSE filters[k]]

\* restore_migrations(**filters): one UPDATE.
RestoreMigrations(filters) ==
    /\ \E m \in store : Matches(m, RestoreFilter(filters))
    /\ store' =
         {IF Matches(m, RestoreFilter(filters))
          THEN [m EXCEPT !.archived = FALSE]
          ELSE m : m \in store}
    /\ UNCHANGED <<nextUuid, destination, frame>>

----------------------------------------------------------------------------
(* cmd/list.py, cmd/delete.py, cmd/restore.py: the commands on the store *)

\* The terminal where an operator runs these commands, one after the other,
\* between migrations.
AdminProcs == {"p1"}

\* The filters dictionary the commands build from the options --service,
\* --status and --source-id, an entry for each option given.  The command
\* lines here give no option, one of --status and --source-id, or --service
\* and --status together.
CommandFilters ==
    {[k \in D |-> f[k]] :
        f \in [service : {"neutron", "designate"},
               status : {STATUS_COMPLETED, STATUS_FAILED},
               source_id : SourceIds],
        D \in {{}, {"status"}, {"source_id"}, {"service", "status"}}}

\* A command is a process of its own: it starts with no locals, whatever
\* call p made before (the outcome of a migration is still on the terminal).
Fresh(p) == frame[p].pc = "idle" /\ frame[p].kind = None

\* The command of p exits and the operator clears the terminal.
CommandExits(p) ==
    /\ frame[p].kind \in {"list", "delete", "restore"}
    /\ frame' = [frame EXCEPT ![p] = NoFrame]
    /\ UNCHANGED <<store, nextUuid, destination>>

\* list.py lines 47-48, delete.py lines 46-47: the flag --archived adds the
\* entry archived=True to the filters.
WithArchivedOption(filters, archived) ==
    IF archived
    THEN [k \in (DOMAIN filters) \cup {"archived"} |->
             IF k = "archived" THEN TRUE ELSE filters[k]]
    ELSE filters

\* The flags of a command line, as the set of those given.
Options(archived, include_archived, hard, all_migrations) ==
    (IF archived THEN {"archived"} ELSE {})
        \cup (IF include_archived THEN {"include-archived"} ELSE {})
        \cup (IF hard THEN {"hard"} ELSE {})
        \cup (IF all_migrations THEN {"all"} ELSE {})

\* The command of p is over; its frame keeps the command line and the rows
\* its query matched.
Ran(p, kind, outcome, options, filters, rows) ==
    [frame EXCEPT ![p] =
        [NoFrame EXCEPT !.kind = kind,
                        !.outcome = outcome,
                        !.options = options,
                        !.filters = filters,
                        !.listed = rows]]

\* cmd/list.py lines 28-50: the list command builds its filters and prints
\* what get_migrations returns.
list_migrations(p, filters, archived, include_archived) ==
    /\ Fresh(p)
    /\ frame' = Ran(p, "list", "returned",
                    Options(archived, include_archived, FALSE, FALSE),
                    filters,
                    get_migrations(include_archived,
                                   WithArchivedOption(filters, archived)))
    /\ UNCHANGED <<store, nextUuid, destination>>

\* db/api.py lines 59-62: the UPDATE of a soft deletion.
SoftDeleted(filters) ==
    {IF Matches(m, filters) THEN [m EXCEPT !.archived = TRUE] ELSE m :
        m \in store}

\* HardDeleted with the DELETE of line 64 archiving the rows instead.
HardDeleted_Archives(filters) == SoftDeleted(filters)

\* db/api.py lines 63-64: the DELETE of a hard deletion.
HardDeleted(filters) == {m \in store : ~Matches(m, filters)}

\* DeleteRefused with the test of delete.py line 49 left out.
DeleteRefused_Never(filters, all_migrations) == FALSE

\* cmd/delete.py lines 49-52: no filter and no --all; the command raises
\* click.ClickException.
DeleteRefused(filters, all_migrations) ==
    DOMAIN filters = {} /\ ~all_migrations

\* cmd/delete.py lines 20-54: the delete command builds its filters, refuses
\* to go on without any unless --all is given, and calls
\* api.delete_migrations(soft_delete=(not hard), **filters).
delete_migrations(p, filters, archived, hard, all_migrations) ==
    LET given == WithArchivedOption(filters, archived)
        options == Options(archived, FALSE, hard, all_migrations)
    IN  /\ Fresh(p)
        /\ IF DeleteRefused(given, all_migrations)
           THEN /\ frame' = Ran(p, "delete", "raised", options, filters, {})
                /\ store' = store
           ELSE /\ frame' = Ran(p, "delete", "returned", options, filters,
                                {m \in store : Matches(m, given)})
                /\ store' = IF hard
                            THEN HardDeleted(given)
                            ELSE SoftDeleted(given)
        /\ UNCHANGED <<nextUuid, destination>>

\* Restored with the UPDATE of line 74 on every archived row, matching the
\* other filters or not.
Restored_All(filters) == {[m EXCEPT !.archived = FALSE] : m \in store}

\* Restored with the UPDATE of line 74 setting nothing.
Restored_Nothing(filters) == store

\* db/api.py lines 70-75: the UPDATE of restore_migrations, on the archived
\* rows that match.
Restored(filters) ==
    {IF Matches(m, RestoreFilter(filters))
     THEN [m EXCEPT !.archived = FALSE]
     ELSE m : m \in store}

\* cmd/restore.py lines 15-38: the restore command builds its filters and
\* calls api.restore_migrations(**filters); it has no --all flag and no test
\* on the filters.  The operator runs it from a cleared terminal, or right
\* after a delete command, with the options of that command.
restore_migrations(p, filters) ==
    /\ \/ Fresh(p)
       \/ frame[p].kind = "delete" /\ frame[p].filters = filters
    /\ frame' = Ran(p, "restore", "returned", {}, filters,
                    {m \in store : Matches(m, RestoreFilter(filters))})
    /\ store' = Restored(filters)
    /\ UNCHANGED <<nextUuid, destination>>

\* The filters other code hands restore_migrations directly: a source id or
\* nothing, and a value for the column archived.
ApiFilters ==
    {[k \in D \cup {"archived"} |-> f[k]] :
        f \in [source_id : SourceIds, archived : BOOLEAN],
        D \in {{}, {"source_id"}}}

\* db/api.py lines 67-75: restore_migrations(**filters) called with a value
\* for archived among its filters; line 70 overwrites it.
api_restore_migrations(p, filters) ==
    /\ Fresh(p)
    /\ frame' = Ran(p, "restore", "returned", {}, filters,
                    {m \in store : Matches(m, RestoreFilter(filters))})
    /\ store' = Restored(filters)
    /\ UNCHANGED <<nextUuid, destination>>

----------------------------------------------------------------------------
(* The handlers' listings of associated and member resources *)

\* A run of the tool asks the handler of type t for the associated resources
\* of resource id and gets the list the handler builds.
ListAssociated(p, t, id) ==
    /\ frame[p].pc = "idle"
    /\ frame' = [frame EXCEPT ![p] =
                    [NoFrame EXCEPT !.kind = "associated",
                                    !.resource_type = t,
                                    !.resource_id = id,
                                    !.resource_ids =
                                       get_associated_resources(t, id),
                                    !.outcome = "returned"]]
    /\ UNCHANGED <<store, nextUuid, destination>>

\* A run of the tool asks the router handler for the member resources of
\* router id: the handler lists the set of subnet ids it has collected, in
\* the order the set iterates in (for strings, a matter of the hash seed of
\* the Python process).
ListMembers(p, id) ==
    /\ frame[p].pc = "idle"
    /\ \E members \in Orders(get_member_resources("router", id)) :
          frame' = [frame EXCEPT ![p] =
                       [NoFrame EXCEPT !.kind = "members",
                                       !.resource_type = "router",
                                       !.resource_id = id,
                                       !.resource_ids =
                                          [i \in DOMAIN members |->
                                              <<"subnet", members[i]>>],
                                       !.outcome = "returned"]]
    /\ UNCHANGED <<store, nextUuid, destination>>

----------------------------------------------------------------------------
(* cmd/start.py: the start command *)

\* Lines 13-23: the operator runs `start --resource-type t [--cleanup-source]
\* id`; click hands the function the type, the id and the flag.
start_migration(p, t, id, cleanup_source) ==
    /\ frame[p].pc = "idle"
    /\ frame' = [frame EXCEPT ![p] =
                    [NoFrame EXCEPT !.pc = "start",
                                    !.kind = "start",
                                    !.resource_type = t,
                                    !.resource_id = id,
                                    !.options = IF cleanup_source
                                                THEN {"cleanup-source"}
                                                ELSE {}]]
    /\ UNCHANGED <<store, nextUuid, destination>>

\* Lines 24-26: the command calls perform_individual_migration with the
\* keyword argument cleanup_source.  The method (manager.py:16) takes
\* resource_type and resource_id only, so the call raises TypeError before
\* the body of the method runs: no row, no handler call, and nothing is
\* deleted on the source cloud (nothing under src calls a handler's
\* delete_source_resource).
StartCallRaises(p) ==
    /\ frame[p].pc = "start"
    /\ frame' = Ended(p, "raised")
    /\ UNCHANGED <<store, nextUuid, destination>>

----------------------------------------------------------------------------
Next ==
    \/ \E p \in Procs, r \in SourceResources :
          StartIndividual(p, r[1], r[2])
    \/ \E p \in Procs : HandlerReturns(p)
    \/ \E p \in Procs, created \in BOOLEAN : HandlerRaises(p, created)
    \/ \E p \in Procs : SaveFailed(p)
    \/ \E p \in Procs : SaveCompleted(p)
    \/ \E p \in BatchProcs, t \in ResourceTypes, dry \in BOOLEAN :
          \E ids \in Listings(t) : StartBatch(p, t, ids, dry)
    \/ \E p \in Procs : BatchSkip(p)
    \/ \E p \in Procs : BatchDryRun(p)
    \/ \E p \in Procs : BatchMigrate(p)
    \/ \E p \in Procs : BatchCreate(p)
    \/ \E p \in Procs : BatchReturn(p)
    \/ \E filters \in AdminFilters : SoftDeleteMigrations(filters)
    \/ \E filters \in AdminFilters : RestoreMigrations(filters)

Spec == Init /\ [][Next]_vars

\* The same program with processes that may be killed at any point of a call.
NextCrash ==
    \/ Next
    \/ \E p \in Procs : Interrupt(p)

SpecCrash == Init /\ [][NextCrash]_vars

\* The source cleanup of a completed migration failed: step 6 of migrateOne
\* in the specification (deleteSourceResource is called when cleanup is
\* requested, and a failure is recorded on the row).  cmd/start.py passes
\* cleanup_source and the handlers have a delete_source_resource, but the
\* manager has no cleanup step of its own.
SourceCleanupFailed(uuid) ==
    /\ \E m \in store : m.uuid = uuid /\ m.status = STATUS_COMPLETED
    /\ store' = Updated(uuid, [status |-> STATUS_SOURCE_CLEANUP_FAILED])
    /\ UNCHANGED <<nextUuid, destination, frame>>

\* The program with the cleanup step after its migrations.
NextCleanup ==
    \/ Next
    \/ \E uuid \in 1..MaxRecords : SourceCleanupFailed(uuid)

SpecCleanup == Init /\ [][NextCleanup]_vars

\* One invocation after the other migrates resources of the second cloud
\* (and of the cycle scenario) and connects the router's members.
NextDeps ==
    \/ \E p \in DepProcs, r \in DepResources \cup CycleResources :
          StartIndividual(p, r[1], r[2])
    \/ \E p \in DepProcs : HandlerReturns(p)
    \/ \E p \in DepProcs : HandlerRaises(p, FALSE)
    \/ \E p \in DepProcs : SaveFailed(p)
    \/ \E p \in DepProcs : SaveCompleted(p)
    \/ \E p \in DepProcs, uuid \in 1..MaxDepRecords : StartConnect(p, uuid)
    \/ \E p \in DepProcs : ConnectNotFound(p)
    \/ \E p \in DepProcs : ConnectAttach(p)
    \/ \E p \in DepProcs : ConnectConflict(p)
    \/ \E p \in DepProcs : ConnectError(p)
    \/ \E p \in DepProcs : ConnectReturn(p)

SpecDeps == Init /\ [][NextDeps]_vars

\* The program with operators who also go through the start command.
NextStart ==
    \/ Next
    \/ \E p \in Procs, r \in SourceResources, cleanup_source \in BOOLEAN :
          start_migration(p, r[1], r[2], cleanup_source)
    \/ \E p \in Procs : StartCallRaises(p)

SpecStart == Init /\ [][NextStart]_vars

\* Individual migrations towards a destination cloud that may hold resources
\* already.
NextExisting ==
    \/ \E p \in Procs, r \in SourceResources :
          StartIndividual(p, r[1], r[2])
    \/ \E p \in Procs : HandlerReturns(p)
    \/ \E p \in Procs, created \in BOOLEAN : HandlerRaises(p, created)
    \/ \E p \in Procs : SaveFailed(p)
    \/ \E p \in Procs : SaveCompleted(p)

SpecExisting == InitExisting /\ [][NextExisting]_vars

\* One operator migrates resources and, in between, lists, deletes and
\* restores migrations.
NextAdmin ==
    \/ \E p \in AdminProcs, r \in SourceResources :
          StartIndividual(p, r[1], r[2])
    \/ \E p \in AdminProcs : HandlerReturns(p)
    \/ \E p \in AdminProcs : HandlerRaises(p, FALSE)
    \/ \E p \in AdminProcs : SaveFailed(p)
    \/ \E p \in AdminProcs : SaveCompleted(p)
    \/ \E p \in AdminProcs, filters \in CommandFilters,
          archived \in BOOLEAN, include_archived \in BOOLEAN :
          list_migrations(p, filters, archived, include_archived)
    \/ \E p \in AdminProcs, filters \in CommandFilters,
          archived \in BOOLEAN, hard \in BOOLEAN,
          all_migrations \in BOOLEAN :
          delete_migrations(p, filters, archived, hard, all_migrations)
    \/ \E p \in AdminProcs, filters \in CommandFilters :
          restore_migrations(p, filters)
    \/ \E p \in AdminProcs, filters \in ApiFilters :
          api_restore_migrations(p, filters)
    \/ \E p \in AdminProcs : CommandExits(p)

SpecAdmin == Init /\ [][NextAdmin]_vars

\* Callers of perform_individual_migration that pass it any arguments.
NextCalls ==
    \/ \E p \in Procs, r \in CallInputs :
          perform_individual_migration(p, r[1], r[2])
    \/ \E p \in Procs : HandlerReturns(p)
    \/ \E p \in Procs, created \in BOOLEAN : HandlerRaises(p, created)
    \/ \E p \in Procs : SaveFailed(p)
    \/ \E p \in Procs : SaveCompleted(p)

SpecCalls == Init /\ [][NextCalls]_vars

\* The same callers, with processes that are not killed and get to run:
\* once the handler call is over, the manager goes on with the lines that
\* follow it (39-43 after an exception, 45-48 after a return), which wait
\* for nothing.
SpecCallsFair ==
    /\ SpecCalls
    /\ \A p \in Procs :
          WF_vars(SaveCompleted(p)) /\ WF_vars(SaveFailed(p))

\* Runs of the tool against the same source cloud that ask the handlers for
\* the associated and the member resources of its resources.
NextListing ==
    \/ \E p \in Procs,
          r \in DepResources \cup GatewayResources \cup FloatingIpResources :
          ListAssociated(p, r[1], r[2])
    \/ \E p \in Procs, id \in {"r", "g"} : ListMembers(p, id)

SpecListing == Init /\ [][NextListing]_vars

\* One invocation after the other migrates the external network, its subnet
\* and the router with the gateway.
NextGateway ==
    \/ \E p \in DepProcs, r \in GatewayResources :
          StartIndividual(p, r[1], r[2])
    \/ \E p \in DepProcs : HandlerReturns(p)
    \/ \E p \in DepProcs : HandlerRaises(p, FALSE)
    \/ \E p \in DepProcs : SaveFailed(p)
    \/ \E p \in DepProcs : SaveCompleted(p)

SpecGateway == Init /\ [][NextGateway]_vars

\* One invocation after the other migrates resources of the second cloud
\* and runs batches over its subnets.
NextSubnets ==
    \/ \E p \in DepProcs, r \in DepResources :
          StartIndividual(p, r[1], r[2])
    \/ \E p \in DepProcs, ids \in SubnetListings, dry \in BOOLEAN :
          StartBatch(p, "subnet", ids, dry)
    \/ \E p \in DepProcs : BatchSkip(p)
    \/ \E p \in DepProcs : BatchDryRun(p)
    \/ \E p \in DepProcs : BatchMigrate(p)
    \/ \E p \in DepProcs : BatchCreate(p)
    \/ \E p \in DepProcs : BatchReturn(p)
    \/ \E p \in DepProcs : HandlerReturns(p)
    \/ \E p \in DepProcs : HandlerRaises(p, FALSE)
    \/ \E p \in DepProcs : SaveFailed(p)
    \/ \E p \in DepProcs : SaveCompleted(p)

SpecSubnets == Init /\ [][NextSubnets]_vars

\* One invocation after the other migrates resources of the second cloud,
\* while an operator soft-deletes and restores migrations.
NextArchive ==
    \/ \E p \in DepProcs, r \in DepResources :
          StartIndividual(p, r[1], r[2])
    \/ \E p \in DepProcs : HandlerReturns(p)
    \/ \E p \in DepProcs : HandlerRaises(p, FALSE)
    \/ \E p \in DepProcs : SaveFailed(p)
    \/ \E p \in DepProcs : SaveCompleted(p)
    \/ \E filters \in DepAdminFilters : SoftDeleteMigrations(filters)
    \/ \E filters \in DepAdminFilters : RestoreMigrations(filters)

SpecArchive == Init /\ [][NextArchive]_vars

\* One invocation after the other runs batches with resource filters.
NextFiltered ==
    \/ \E p \in BatchProcs, t \in ResourceTypes,
          resource_filters \in BatchFilters, dry \in BOOLEAN :
          \E ids \in Listings(t) :
             perform_batch_migration(p, t, resource_filters, ids, dry)
    \/ \E p \in BatchProcs : BatchSkip(p)
    \/ \E p \in BatchProcs : BatchDryRun(p)
    \/ \E p \in BatchProcs : BatchMigrate(p)
    \/ \E p \in BatchProcs : BatchCreate(p)
    \/ \E p \in BatchProcs : BatchReturn(p)
    \/ \E p \in BatchProcs : HandlerReturns(p)
    \/ \E p \in BatchProcs, created \in BOOLEAN : HandlerRaises(p, created)
    \/ \E p \in BatchProcs : SaveFailed(p)
    \/ \E p \in BatchProcs : SaveCompleted(p)

SpecFiltered == Init /\ [][NextFiltered]_vars

----------------------------------------------------------------------------
(* Vocabulary of the properties *)

\* Statuses of a row whose destination resource exists.
MigratedStatuses == {STATUS_COMPLETED, STATUS_SOURCE_CLEANUP_FAILED}

\* "Already migrated", data model of the specification: a non-archived row
\* of the pair (t, id) that is completed (or failed only its source cleanup).
AlreadyMigrated(t, id) ==
    \E m \in store :
        /\ ~m.archived
        /\ m.resource_type = t
        /\ m.source_id = id
        /\ m.status \in MigratedStatuses

\* Process p takes a step of its call (its frame changes), not being killed.
Steps(p) == frame'[p] # frame[p] /\ frame'[p] # NoFrame

----------------------------------------------------------------------------
(* C1 *)

AllowedTransitions ==
    {<<STATUS_IN_PROGRESS, STATUS_COMPLETED>>,
     <<STATUS_IN_PROGRESS, STATUS_FAILED>>,
     <<STATUS_COMPLETED, STATUS_SOURCE_CLEANUP_FAILED>>}

\* C1: every status change of a row is in-progress -> completed, in-progress
\* -> failed or completed -> source-cleanup-failed (so a failed or
\* source-cleanup-failed row keeps its status and no row goes back to
\* in-progress), and a row enters the store in-progress.
C1_StatusTransitions ==
    [][/\ \A m \in store : \A n \in store' :
             (m.uuid = n.uuid /\ m.status # n.status)
                => <<m.status, n.status>> \in AllowedTransitions
       /\ \A n \in store' :
             (\A m \in store : m.uuid # n.uuid)
                => n.status = STATUS_IN_PROGRESS]_vars

\* Both outcomes happened: one row failed, another completed.
C1_Witness ==
    \E m, n \in store :
        m.status = STATUS_FAILED /\ n.status = STATUS_COMPLETED

----------------------------------------------------------------------------
(* C2 *)

\* C2: a row has a destination id if and only if its status is completed or
\* source-cleanup-failed.
C2_DestinationIdIffMigrated ==
    \A m \in store : (m.destination_id # 0) <=> (m.status \in MigratedStatuses)

\* A completed row (with its id) beside a failed one (without).
C2_Witness ==
    \E m, n \in store :
        /\ m.status = STATUS_COMPLETED /\ m.destination_id # 0
        /\ n.status = STATUS_FAILED /\ n.destination_id = 0

----------------------------------------------------------------------------
(* C6 *)

\* C6: the handler call of an individual migration starts with the row of
\* the migration just inserted (in-progress, the call's type and id, no
\* destination id); a row becomes completed only by the save of the process
\* that holds it, after its handler call returned, with the id the handler
\* returned (a resource of the destination made for this source resource),
\* and that save adds no row.
C6_RecordBeforeHandlerCompletedAfter ==
    [][/\ \A p \in Procs :
             (frame[p].pc # "handler" /\ frame'[p].pc = "handler")
                => \E n \in store' \ store :
                      /\ n.uuid = frame'[p].migration
                      /\ n.status = STATUS_IN_PROGRESS
                      /\ n.resource_type = frame'[p].resource_type
                      /\ n.source_id = frame'[p].resource_id
                      /\ n.destination_id = 0
                      /\ \A m \in store : m.uuid # n.uuid
       /\ \A m \in store : \A n \in store' :
             (/\ m.uuid = n.uuid
              /\ m.status # STATUS_COMPLETED
              /\ n.status = STATUS_COMPLETED)
                => /\ m.status = STATUS_IN_PROGRESS
                   /\ {x.uuid : x \in store'} = {x.uuid : x \in store}
                   /\ \E p \in Procs :
                         /\ frame[p].pc = "returned"
                         /\ frame[p].migration = m.uuid
                         /\ n.destination_id = frame[p].destination_id
                   /\ \E r \in destination :
                         /\ r.id = n.destination_id
                         /\ r.resource_type = n.resource_type
                         /\ r.name = n.source_id]_vars

\* An individual migration went through: its call returned and left a
\* completed row pointing at a destination resource.
C6_Witness ==
    \E p \in Procs : \E m \in store : \E r \in destination :
        /\ frame[p].pc = "idle" /\ frame[p].outcome = "returned"
        /\ m.status = STATUS_COMPLETED
        /\ m.destination_id = r.id

----------------------------------------------------------------------------
(* C7 *)

\* C7: when the handler call of a migration raised, the next step of the
\* process ends the call by raising to its caller and leaves the row of the
\* attempt failed, with an error message and no destination id; failed rows
\* always carry an error message and no destination id.
C7_HandlerFailureRecordedAndRaised ==
    [][/\ \A p \in Procs :
             (frame[p].pc = "raised" /\ Steps(p))
                => /\ frame'[p].pc = "idle"
                   /\ frame'[p].outcome = "raised"
                   /\ \A n \in store' :
                         n.uuid = frame[p].migration
                            => /\ n.status = STATUS_FAILED
                               /\ n.error_message # None
                               /\ n.destination_id = 0
       /\ \A n \in store' :
             n.status = STATUS_FAILED
                => n.error_message # None /\ n.destination_id = 0]_vars

\* A call ended by raising and its row is failed.
C7_Witness ==
    \E p \in Procs : \E m \in store :
        /\ frame[p].pc = "idle" /\ frame[p].outcome = "raised"
        /\ m.status = STATUS_FAILED
        /\ m.error_message # None

----------------------------------------------------------------------------
(* C3 *)

\* C3: an individual migration called for a pair that already has a
\* non-archived completed row (a first call succeeded, nothing was archived
\* or deleted since) adds no row and does not go on to the handler call.
C3_SecondCallShortCircuits ==
    [][\A p \in Procs :
          (/\ frame[p].pc = "idle"
           /\ frame'[p].kind = "individual"
           /\ AlreadyMigrated(frame'[p].resource_type, frame'[p].resource_id))
             => /\ store' = store
                /\ frame'[p].pc # "handler"]_vars

----------------------------------------------------------------------------
(* C4 *)

\* Processes p and q run an individual migration of the same pair at the
\* same time.
Racing(p, q) ==
    /\ p # q
    /\ frame[p].kind = "individual"
    /\ frame[q].kind = "individual"
    /\ frame[p].resource_type = frame[q].resource_type
    /\ frame[p].resource_id = frame[q].resource_id

\* C4: two processes racing on one pair never both come back from the
\* handler with an id (one creation at most, and one row at most about to
\* receive a destination id: the loser reuses the winner's row or fails).
C4_OneWinner ==
    \A p, q \in Procs :
        Racing(p, q) => ~(frame[p].pc = "returned" /\ frame[q].pc = "returned")

----------------------------------------------------------------------------
(* C5 *)

\* The rows that claim the pair (t, id): non-archived, in flight or migrated.
Claims(t, id) ==
    {m \in store :
        /\ ~m.archived
        /\ m.resource_type = t
        /\ m.source_id = id
        /\ m.status \in MigratedStatuses \cup {STATUS_IN_PROGRESS}}

\* C5: each pair has at most one non-archived row that is in-progress,
\* completed or source-cleanup-failed.
C5_UniqueClaim ==
    \A t \in ResourceTypes, id \in SourceIds : Cardinality(Claims(t, id)) <= 1

----------------------------------------------------------------------------
(* C8 *)

\* C8: a batch ends by returning, with every listed candidate examined,
\* whatever happened to the candidates it migrated.
C8_BatchSurvivesFailure ==
    [][\A p \in Procs :
          (/\ frame[p].kind = "batch"
           /\ frame'[p].pc = "idle"
           /\ Steps(p))
             => /\ frame'[p].outcome = "returned"
                /\ frame[p].resource_ids = <<>>]_vars

----------------------------------------------------------------------------
(* C9 *)

\* The batch of p examines its next candidate in this step.
Examines(p) ==
    /\ frame[p].pc = "batch"
    /\ frame[p].resource_ids # <<>>
    /\ Steps(p)

\* C9: a batch passes to perform_individual_migration no candidate that has
\* a non-archived completed row of its type and id when it is examined; it
\* passes every other candidate when not in dry-run; and it ends only when it
\* has examined all of them.
C9_SkipsExactlyTheMigrated ==
    [][\A p \in Procs :
          /\ Examines(p) =>
                (frame'[p].pc = "indiv"
                    <=> /\ ~frame[p].dry_run
                        /\ ~AlreadyMigrated(frame[p].resource_type,
                                            Head(frame[p].resource_ids)))
          /\ (frame[p].kind = "batch" /\ frame'[p].pc = "idle" /\ Steps(p))
                => frame[p].resource_ids = <<>>]_vars

----------------------------------------------------------------------------
(* C10 *)

\* C10: a candidate the batch skips as already migrated has a non-archived
\* completed row of the batch's resource type, not only of another type.
C10_SkipKeyedOnTypeAndId ==
    [][\A p \in Procs :
          (Examines(p) /\ frame'[p].logged = "skipping")
             => AlreadyMigrated(frame[p].resource_type,
                                Head(frame[p].resource_ids))]_vars

----------------------------------------------------------------------------
(* C13 *)

\* C13: no step of a dry-run batch (its start and its return included)
\* changes the store (no row created, updated or archived), the uuid counter
\* or the destination cloud, and none brings the batch to the call of
\* perform_individual_migration or to a handler call.
C13_DryRunChangesNothing ==
    [][\A p \in Procs :
          (/\ frame'[p] # frame[p]
           /\ \/ frame[p].kind = "batch" /\ frame[p].dry_run
              \/ frame'[p].kind = "batch" /\ frame'[p].dry_run)
             => /\ store' = store
                /\ nextUuid' = nextUuid
                /\ destination' = destination
                /\ frame'[p].pc \in {"batch", "idle"}
                /\ frame'[p].migration = 0]_vars

\* A dry-run batch has logged its last candidate, which is not migrated, while
\* the store holds rows of earlier migrations.
C13_Witness ==
    \E p \in Procs :
        /\ frame[p].kind = "batch" /\ frame[p].dry_run
        /\ frame[p].logged = "dry-run"
        /\ frame[p].resource_ids = <<>>
        /\ store # {}
        /\ ~AlreadyMigrated(frame[p].resource_type, frame[p].resource_id)

----------------------------------------------------------------------------
(* C14 *)

\* C14: a batch that returns hands its caller a summary, a record of the
\* counts succeeded, failed and skipped (which add up to the number of
\* candidates listed).
C14_BatchReturnsSummary ==
    [][\A p \in Procs :
          (/\ frame[p].kind = "batch"
           /\ frame'[p].pc = "idle"
           /\ frame'[p].outcome = "returned")
             => frame'[p].result # None]_vars

----------------------------------------------------------------------------
(* C12 *)

\* The rows an interrupted run left behind for the pair (t, id): in-progress,
\* not archived, and held by no running call.
LeftInProgress(t, id) ==
    {m \in store :
        /\ ~m.archived
        /\ m.resource_type = t
        /\ m.source_id = id
        /\ m.status = STATUS_IN_PROGRESS
        /\ \A q \in Procs : frame[q].migration # m.uuid}

\* C12: a candidate that is not already migrated and has a row left
\* in-progress by an interrupted run is not skipped by a batch that examines
\* it; when not in dry-run the batch attempts it again.
C12_InterruptedIsRetried ==
    [][\A p \in Procs :
          (/\ Examines(p)
           /\ LeftInProgress(frame[p].resource_type,
                             Head(frame[p].resource_ids)) # {}
           /\ ~AlreadyMigrated(frame[p].resource_type,
                               Head(frame[p].resource_ids)))
             => /\ frame'[p].logged # "skipping"
                /\ ~frame[p].dry_run => frame'[p].pc = "indiv"]_vars

----------------------------------------------------------------------------
(* C11 *)

\* C11: a batch that examines a candidate with a non-archived
\* source-cleanup-failed row of its type and id skips it: the candidate is not
\* passed to perform_individual_migration, so that no row and no destination
\* resource is made for it again.
C11_CleanupFailedIsSkipped ==
    [][\A p \in Procs :
          (/\ Examines(p)
           /\ \E m \in store :
                 /\ ~m.archived
                 /\ m.resource_type = frame[p].resource_type
                 /\ m.source_id = Head(frame[p].resource_ids)
                 /\ m.status = STATUS_SOURCE_CLEANUP_FAILED)
             => /\ frame'[p].logged = "skipping"
                /\ frame'[p].pc = "batch"]_vars

----------------------------------------------------------------------------
(* Vocabulary of the properties about dependencies *)

\* The associated resources of (t, id), as a set.
Dependencies(t, id) ==
    LET listed == get_associated_resources(t, id)
    IN  {listed[i] : i \in DOMAIN listed}

\* The resources that list (t, id) as a member.
Parents(t, id) ==
    {r \in DepResources :
        t = "subnet" /\ id \in get_member_resources(r[1], r[2])}

\* The pair (t, id) has a non-archived completed row.
Completed(t, id) ==
    \E m \in store :
        /\ ~m.archived
        /\ m.resource_type = t
        /\ m.source_id = id
        /\ m.status = STATUS_COMPLETED

\* The rows this step inserts.
Inserted == {n \in store' : \A m \in store : m.uuid # n.uuid}

\* The resources reached from those of S by at most n associated edges.
RECURSIVE ReachedFrom(_, _)
ReachedFrom(S, n) ==
    IF n = 0
    THEN S
    ELSE ReachedFrom(S \cup UNION {Dependencies(r[1], r[2]) : r \in S}, n - 1)

\* (t, id) is on a cycle of associated edges.
OnCycle(t, id) ==
    <<t, id>> \in ReachedFrom(Dependencies(t, id),
                              Cardinality(DepResources \cup CycleResources))

----------------------------------------------------------------------------
(* C15 *)

\* C15: when a row is inserted for a resource, every associated resource of
\* that resource has a non-archived completed row already.
C15_DependenciesCompletedFirst ==
    [][\A n \in Inserted :
          \A d \in Dependencies(n.resource_type, n.source_id) :
             Completed(d[1], d[2])]_vars

----------------------------------------------------------------------------
(* C16 *)

\* C16: the first row an individual migration of a subnet inserts, when the
\* subnet's network has no migration yet, is the row of the network (the
\* subnet's row comes once that one is completed).
C16_NetworkMigratedFirst ==
    [][\A p \in Procs :
          (/\ frame[p].pc = "idle"
           /\ frame'[p].kind = "individual"
           /\ frame'[p].resource_type = "subnet"
           /\ ~\E m \in store :
                  /\ m.resource_type = "network"
                  /\ m.source_id = NetworkOf(frame'[p].resource_id))
             => \A n \in Inserted :
                   /\ n.resource_type = "network"
                   /\ n.source_id = NetworkOf(frame'[p].resource_id)]_vars

----------------------------------------------------------------------------
(* C17 *)

\* C17: the store never holds a row for a resource that is on a cycle of
\* associated resources (its migration fails before any row is made).
C17_NoRecordOnCycle ==
    \A m \in store : ~OnCycle(m.resource_type, m.source_id)

----------------------------------------------------------------------------
(* C18 *)

\* The resources some resource of the cloud depends on.
SharedDependencies ==
    UNION {Dependencies(r[1], r[2]) : r \in DepResources}

\* C18: a resource others depend on has at most one completed row and at most
\* one destination resource, and the destination subnets of its dependents
\* are all on that one.
C18_DependencyMigratedOnce ==
    \A d \in SharedDependencies :
        /\ Cardinality({m \in store :
                            /\ m.resource_type = d[1]
                            /\ m.source_id = d[2]
                            /\ m.status = STATUS_COMPLETED}) <= 1
        /\ Cardinality(Equivalent(d[1], d[2])) <= 1
        /\ \A r \in destination :
               r.resource_type = "subnet"
                  => \E n \in Equivalent(d[1], d[2]) : r.network_id = n.id

----------------------------------------------------------------------------
(* C19 *)

\* C19: a row is inserted for a member only when its parent has a
\* non-archived completed row, and an interface is added to the parent only
\* for a member that has one itself.
C19_MembersAfterParent ==
    [][/\ \A n \in Inserted :
             \A r \in Parents(n.resource_type, n.source_id) :
                Completed(r[1], r[2])
       /\ \A i \in destination' \ destination :
             i.resource_type = "interface"
                => \E m \in store :
                      /\ m.resource_type = "subnet"
                      /\ m.status = STATUS_COMPLETED
                      /\ m.destination_id = i.subnet]_vars

----------------------------------------------------------------------------
(* C20 *)

\* C20: the hook that attaches the members never changes the store, and it
\* ends by returning with every member gone through, whatever failed for one
\* of them.
C20_AttachIsBestEffort ==
    [][\A p \in Procs :
          (frame[p].kind = "connect" /\ Steps(p))
             => /\ store' = store
                /\ frame'[p].pc = "idle"
                      => /\ frame'[p].outcome = "returned"
                         /\ frame[p].resource_ids = <<>>]_vars

----------------------------------------------------------------------------
(* C21 *)

\* The start command of p, given --cleanup-source, ends in this step.
CleanupStartEnds(p) ==
    /\ frame[p].kind = "start"
    /\ "cleanup-source" \in frame[p].options
    /\ frame'[p].pc = "idle"
    /\ Steps(p)

\* C21: when a start command given --cleanup-source ends and the migration
\* of its resource has not failed, the resource has a completed row and the
\* destination resource that row points at exists (the source resource being
\* deleted after the row was completed).
C21_CleanupAfterCompleted ==
    [][\A p \in Procs :
          CleanupStartEnds(p)
             => \/ \E m \in store' :
                      /\ m.resource_type = frame[p].resource_type
                      /\ m.source_id = frame[p].resource_id
                      /\ m.status = STATUS_FAILED
                \/ \E m \in store' : \E r \in destination' :
                      /\ m.resource_type = frame[p].resource_type
                      /\ m.source_id = frame[p].resource_id
                      /\ m.status = STATUS_COMPLETED
                      /\ r.resource_type = m.resource_type
                      /\ r.id = m.destination_id]_vars

----------------------------------------------------------------------------
(* C22 *)

\* C22: a start command given --cleanup-source raises only when the
\* migration it ran failed (the row of that migration is failed); a source
\* deletion that fails after the migration succeeded is recorded on the row
\* and not raised.
C22_CleanupFailureIsNoError ==
    [][\A p \in Procs :
          (/\ CleanupStartEnds(p)
           /\ frame'[p].outcome = "raised")
             => \E m \in store' :
                   /\ m.uuid = frame[p].migration
                   /\ m.status = STATUS_FAILED]_vars

----------------------------------------------------------------------------
(* C23 *)

\* The handler call of p returns in this step, the destination holding a
\* resource equivalent to the source resource.
ReturnsWithEquivalent(p) ==
    /\ frame[p].pc = "handler"
    /\ frame'[p].pc = "returned"
    /\ Equivalent(frame[p].resource_type, frame[p].resource_id) # {}

\* The handler call of p made no resource and returned the id of an
\* equivalent resource that was there.
ReusedEquivalent(p) ==
    /\ destination' = destination
    /\ \E r \in Equivalent(frame[p].resource_type, frame[p].resource_id) :
          frame'[p].destination_id = r.id

\* The step that follows a handler's return leaves the row of the migration
\* completed with the id the handler returned, and makes no resource.
CompletedWithReturnedId(p) ==
    (frame[p].pc = "returned" /\ Steps(p))
       => /\ destination' = destination
          /\ \E n \in store' :
                /\ n.uuid = frame[p].migration
                /\ n.status = STATUS_COMPLETED
                /\ n.destination_id = frame[p].destination_id

----------------------------------------------------------------------------
(* C24 *)

\* The pair (t, id) has an archived completed row: its migration succeeded
\* and the row was soft-deleted since.
ArchivedCompleted(t, id) ==
    \E m \in store :
        /\ m.archived
        /\ m.resource_type = t
        /\ m.source_id = id
        /\ m.status = STATUS_COMPLETED

\* C24: a query without include_archived returns no archived row, whatever
\* its filters; and a batch that examines a candidate whose completed row was
\* soft-deleted (no non-archived migrated row of its type and id is left)
\* does not skip it: when not in dry-run it attempts it again.
C24_ArchivedAreInvisible ==
    [][/\ \A filters \in AdminFilters :
             \A m \in get_migrations(FALSE, filters) : ~m.archived
       /\ \A p \in Procs :
             (/\ Examines(p)
              /\ ArchivedCompleted(frame[p].resource_type,
                                   Head(frame[p].resource_ids))
              /\ ~AlreadyMigrated(frame[p].resource_type,
                                  Head(frame[p].resource_ids)))
                => /\ frame'[p].logged # "skipping"
                   /\ ~frame[p].dry_run => frame'[p].pc = "indiv"]_vars

----------------------------------------------------------------------------
(* Vocabulary of the properties about the commands on the store *)

\* Process p runs the command `kind` in this step.
Runs(p, kind) == frame'[p].kind = kind /\ frame'[p] # frame[p]

\* The uuids of the rows of a store.
Uuids(rows) == {m.uuid : m \in rows}

----------------------------------------------------------------------------
(* C25 *)

\* Row m has the value the command line of frame f gave for each of the
\* options --service, --status and --source-id that it gave.
EqualOnEveryOption(m, f) ==
    /\ "service" \in DOMAIN f.filters => m.service = f.filters.service
    /\ "status" \in DOMAIN f.filters => m.status = f.filters.status
    /\ "source_id" \in DOMAIN f.filters => m.source_id = f.filters.source_id

----------------------------------------------------------------------------
(* C26 *)

\* C26: a list command given --archived is handed archived rows only, and
\* all the archived rows that match its other filters, with or without
\* --include-archived.
C26_ArchivedFilterShowsArchived ==
    [][\A p \in Procs :
          (Runs(p, "list") /\ "archived" \in frame'[p].options)
             => frame'[p].listed =
                   {m \in store :
                       EqualOnEveryOption(m, frame'[p]) /\ m.archived}]_vars

----------------------------------------------------------------------------
(* C27 *)

\* C27: a soft deletion removes no row; and a restore that follows a soft
\* deletion with the same filters removes no row and leaves every row the
\* deletion matched as it was before the deletion (status, destination id,
\* source id, resource type, error message and all), with archived false.
C27_SoftDeleteRestoreRoundTrip ==
    [][\A p \in Procs :
          /\ (Runs(p, "delete") /\ "hard" \notin frame'[p].options)
                => Uuids(store') = Uuids(store)
          /\ (/\ frame[p].kind = "delete"
              /\ "hard" \notin frame[p].options
              /\ Runs(p, "restore")
              /\ frame'[p].filters = frame[p].filters)
                => /\ Uuids(store') = Uuids(store)
                   /\ \A m \in frame[p].listed :
                         [m EXCEPT !.archived = FALSE] \in store']_vars

\* A restore by filter has brought back a completed row that a soft deletion
\* had archived: the row is in the store as it was, not archived.
C27_Witness ==
    \E p \in Procs : \E m \in frame[p].listed :
        /\ frame[p].kind = "restore"
        /\ DOMAIN frame[p].filters # {}
        /\ m.archived
        /\ m.status = STATUS_COMPLETED
        /\ m.destination_id # 0
        /\ [m EXCEPT !.archived = FALSE] \in store

----------------------------------------------------------------------------
(* C28 *)

\* C28: after a hard deletion the store holds none of the rows that matched
\* its filters, so that no query returns one; and no later step brings a
\* removed row back: a row enters the store only under a uuid never used
\* before.
C28_HardDeleteIsFinal ==
    [][/\ \A p \in Procs :
             (/\ Runs(p, "delete")
              /\ "hard" \in frame'[p].options
              /\ frame'[p].outcome = "returned")
                => \A m \in store :
                      Matches(m, WithArchivedOption(
                                    frame'[p].filters,
                                    "archived" \in frame'[p].options))
                         => /\ m.uuid \notin Uuids(store')
                            /\ \A include_archived \in BOOLEAN :
                                  \A filters \in CommandFilters :
                                     m.uuid \notin
                                        Uuids(get_migrations(include_archived,
                                                             filters))'
       /\ \A n \in store' :
             n.uuid \in Uuids(store) \/ n.uuid = nextUuid
       /\ \A m \in store : m.uuid < nextUuid
       /\ nextUuid' >= nextUuid]_vars

\* Every row the store ever held has been removed by hard deletions, and the
\* restore run afterwards found nothing to restore.
C28_Witness ==
    \E p \in Procs :
        /\ frame[p].kind = "restore"
        /\ frame[p].listed = {}
        /\ store = {}
        /\ nextUuid > MaxRecords

----------------------------------------------------------------------------
(* C29 *)

\* C29: a delete command, soft or hard, given no filter option and no --all
\* raises and leaves the store as it was.
C29_DeleteNeedsFilterOrAll ==
    [][\A p \in Procs :
          (/\ Runs(p, "delete")
           /\ DOMAIN frame'[p].filters = {}
           /\ frame'[p].options \cap {"archived", "all"} = {})
             => /\ frame'[p].outcome = "raised"
                /\ store' = store]_vars

\* A hard delete without filter and without --all was refused, the store
\* holding rows, archived and not.
C29_Witness ==
    \E p \in Procs : \E m, n \in store :
        /\ frame[p].kind = "delete"
        /\ frame[p].options = {"hard"}
        /\ DOMAIN frame[p].filters = {}
        /\ frame[p].outcome = "raised"
        /\ m.archived /\ ~n.archived

----------------------------------------------------------------------------
(* C30 *)

\* C30: a restore command given no filter option raises and leaves the store
\* as it was (the command has no --all flag to acknowledge with).
C30_RestoreNeedsFilterOrAll ==
    [][\A p \in Procs :
          (Runs(p, "restore") /\ DOMAIN frame'[p].filters = {})
             => /\ frame'[p].outcome = "raised"
                /\ store' = store]_vars

----------------------------------------------------------------------------
(* C31 *)

\* C31: a restore, whatever value for archived its caller supplies, sets the
\* archived flag to false on the archived rows that match its other filters,
\* changes no other field of them, and leaves every other row as it was.
C31_RestoreOnlyArchivedMatching ==
    [][\A p \in Procs :
          Runs(p, "restore")
             => store' =
                   {IF m.archived /\ EqualOnEveryOption(m, frame'[p])
                    THEN [m EXCEPT !.archived = FALSE]
                    ELSE m : m \in store}]_vars

\* A restore called with archived=False and a source id has brought back an
\* archived row of that source id, while a row of another source id is still
\* archived.
C31_Witness ==
    \E p \in Procs : \E m \in frame[p].listed : \E n \in store :
        /\ frame[p].kind = "restore"
        /\ DOMAIN frame[p].filters = {"source_id", "archived"}
        /\ ~frame[p].filters.archived
        /\ m.archived
        /\ [m EXCEPT !.archived = FALSE] \in store
        /\ n.archived
        /\ n.source_id # frame[p].filters.source_id

----------------------------------------------------------------------------
(* C32 *)

\* C32: a call of perform_individual_migration for a type without handler,
\* or with an empty id, raises without adding or changing a row, without
\* reaching the handler call and without touching the destination cloud;
\* the store never holds a row of such a type or with an empty source id.
C32_RejectedBeforePersisting ==
    [][/\ \A p \in Procs :
             (/\ frame'[p] # frame[p]
              /\ frame[p].pc = "idle"
              /\ frame'[p].kind = "individual"
              /\ \/ frame'[p].resource_type
                       \notin {"network", "subnet", "router", "zone"}
                 \/ frame'[p].resource_id = "")
                => /\ frame'[p].outcome = "raised"
                   /\ frame'[p].pc = "idle"
                   /\ frame'[p].migration = 0
                   /\ store' = store
                   /\ nextUuid' = nextUuid
                   /\ destination' = destination
       /\ \A m \in store' :
             /\ m.resource_type \in {"network", "subnet", "router", "zone"}
             /\ m.source_id # ""]_vars

\* One call was refused for its empty id and another for its type, after a
\* migration that left its row in the store.
C32_Witness ==
    \E p, q \in Procs :
        /\ frame[p].kind = "individual"
        /\ frame[p].resource_id = ""
        /\ frame[p].outcome = "raised"
        /\ frame[q].kind = "individual"
        /\ frame[q].resource_type = "volume"
        /\ frame[q].outcome = "raised"
        /\ store # {}

----------------------------------------------------------------------------
(* C33 *)

\* C33: a batch given a filter key its handler does not support (anything
\* but owner_id for a network, anything but project_id for a zone) raises
\* InvalidInput with no candidate listed: it never enters its loop, adds no
\* row and calls no handler migration.
C33_UnsupportedFilterFailsFirst ==
    [][\A p \in Procs :
          (/\ Runs(p, "batch")
           /\ frame[p].pc = "idle"
           /\ \E k \in DOMAIN frame'[p].filters :
                 k # (IF frame'[p].resource_type = "zone"
                      THEN "project_id"
                      ELSE "owner_id"))
             => /\ frame'[p].outcome = "raised"
                /\ frame'[p].error = "InvalidInput"
                /\ frame'[p].pc = "idle"
                /\ frame'[p].resource_ids = <<>>
                /\ frame'[p].migration = 0
                /\ store' = store
                /\ nextUuid' = nextUuid
                /\ destination' = destination]_vars

\* A batch of zones filtered by owner_id was refused, the store holding the
\* rows of an earlier batch.
C33_Witness ==
    \E p \in Procs :
        /\ frame[p].kind = "batch"
        /\ frame[p].resource_type = "zone"
        /\ DOMAIN frame[p].filters = {"owner_id"}
        /\ frame[p].error = "InvalidInput"
        /\ store # {}

----------------------------------------------------------------------------
(* C34 *)

\* C34: two runs that ask a handler for the associated resources, or for
\* the members, of the same resource of the same source cloud are handed the
\* same resources in the same order.
C34_ListingOrderIsDeterministic ==
    \A p, q \in Procs :
        (/\ frame[p].kind \in {"associated", "members"}
         /\ frame[q].kind = frame[p].kind
         /\ frame[q].resource_type = frame[p].resource_type
         /\ frame[q].resource_id = frame[p].resource_id)
           => frame[q].resource_ids = frame[p].resource_ids

----------------------------------------------------------------------------
(* C35 *)

\* C35: whenever the handler's migrate call of router g, whose external
\* gateway has a fixed IP on subnet xs, is running, every external subnet
\* has a non-archived completed migration, so that the handler's lookup of
\* the migrated subnet finds it.
C35_ExternalSubnetsMigratedFirst ==
    \A p \in Procs :
        (/\ frame[p].pc = "handler"
         /\ frame[p].resource_type = "router")
           => \A src_subnet_id \in ExternalSubnets(frame[p].resource_id) :
                 /\ Completed("subnet", src_subnet_id)
                 /\ get_destination_id_from_db("subnet", src_subnet_id) # 0

----------------------------------------------------------------------------
(* C36 *)

\* The subnet process p is migrating has no completed migration of its
\* network to be found.
LacksNetwork(p) ==
    /\ frame[p].resource_type = "subnet"
    /\ \A m \in store :
          ~(/\ m.resource_type = "network"
            /\ m.source_id = NetworkOf(frame[p].resource_id)
            /\ m.status = STATUS_COMPLETED)

\* C36: the handler call for a subnet whose network has no completed
\* migration raises with the destination cloud and the store untouched; the
\* subnet's row is then marked failed, and a batch goes on with the
\* candidates it has left.
C36_MissingPrerequisiteSparesSiblings ==
    [][\A p \in Procs :
          /\ (frame[p].pc = "handler" /\ LacksNetwork(p) /\ Steps(p))
                => /\ frame'[p].pc = "raised"
                   /\ destination' = destination
                   /\ store' = store
          /\ (frame[p].pc = "raised" /\ LacksNetwork(p) /\ Steps(p))
                => /\ \E m \in store' :
                         /\ m.uuid = frame[p].migration
                         /\ m.status = STATUS_FAILED
                   /\ frame[p].kind = "batch"
                         => /\ frame'[p].pc = "batch"
                            /\ frame'[p].resource_ids =
                                  frame[p].resource_ids]_vars

----------------------------------------------------------------------------
(* C37 *)

\* The pair (t, id) has a non-archived completed row with destination id
\* dest.
CompletedAs(t, id, dest) ==
    \E m \in store :
        /\ ~m.archived
        /\ m.resource_type = t
        /\ m.source_id = id
        /\ m.status = STATUS_COMPLETED
        /\ m.destination_id = dest

\* C37: the destination id a handler's lookup of a migrated dependency
\* returns (the subnet handler's for a network, the router handler's for a
\* subnet) is that of a non-archived completed row, and so is the network a
\* subnet is created on.
C37_LookupsIgnoreArchived ==
    [][/\ \A r \in DepResources :
             /\ (r[1] = "network" /\ get_migrated_network_id(r[2]) # 0)
                   => CompletedAs("network", r[2],
                                  get_migrated_network_id(r[2]))
             /\ (r[1] = "subnet"
                    /\ get_destination_id_from_db("subnet", r[2]) # 0)
                   => CompletedAs("subnet", r[2],
                                  get_destination_id_from_db("subnet", r[2]))
       /\ \A d \in destination' \ destination :
             d.resource_type = "subnet"
                => CompletedAs("network", NetworkOf(d.name),
                               d.network_id)]_vars

----------------------------------------------------------------------------
(* C38 *)

\* Process p, which has just run a soft delete that went through, runs a
\* restore with the same filters in this step.
RestoresWhatItDeleted(p) ==
    /\ frame[p].kind = "delete"
    /\ "hard" \notin frame[p].options
    /\ frame[p].outcome = "returned"
    /\ Runs(p, "restore")
    /\ frame'[p].filters = frame[p].filters

\* The rows of the store that the last delete of p did not match.
Unmatched(p) == {m \in store : m.uuid \notin Uuids(frame[p].listed)}

\* C38 as stated: a restore that follows a soft delete with the same filters
\* leaves the store as it was before the soft delete: the rows the delete
\* matched as they were then (those archived before, archived still), the
\* others untouched.
C38_SoftDeleteRestoreIsIdentity ==
    [][\A p \in Procs :
          RestoresWhatItDeleted(p)
             => store' = frame[p].listed \cup Unmatched(p)]_vars

\* C38, amended: a soft delete changes nothing but the archived flag of the
\* rows it matches; and a restore that follows it with the same filters
\* leaves every row the delete matched as it was before the delete except
\* that it is not archived, whether it was before or not, and every other
\* row untouched.  The store is back to its state before the delete exactly
\* when none of the matched rows was archived then.
C38_SoftDeleteRestoreUnarchives ==
    [][\A p \in Procs :
          /\ (/\ Runs(p, "delete")
              /\ "hard" \notin frame'[p].options
              /\ frame'[p].outcome = "returned")
                => store' =
                      {[m EXCEPT !.archived = TRUE] : m \in frame'[p].listed}
                         \cup {m \in store :
                                  m.uuid \notin Uuids(frame'[p].listed)}
          /\ RestoresWhatItDeleted(p)
                => /\ store' =
                         {[m EXCEPT !.archived = FALSE] :
                             m \in frame[p].listed}
                            \cup Unmatched(p)
                   /\ (store' = frame[p].listed \cup Unmatched(p))
                         <=> \A m \in frame[p].listed : ~m.archived]_vars

\* A restore by source id has un-archived the two rows of that source id, a
\* network's and a zone's, that the store holds.
C38_Witness ==
    \E p \in Procs : \E m, n \in frame[p].listed :
        /\ frame[p].kind = "restore"
        /\ DOMAIN frame[p].filters = {"source_id"}
        /\ m.resource_type = "network"
        /\ n.resource_type = "zone"
        /\ store = {[m EXCEPT !.archived = FALSE],
                    [n EXCEPT !.archived = FALSE]}

----------------------------------------------------------------------------
(* C39 *)

\* Statuses no row leaves through the manager.
TerminalStatuses ==
    {STATUS_COMPLETED, STATUS_FAILED, STATUS_SOURCE_CLEANUP_FAILED}

\* The call of process p that made row uuid is running.
RunningFor(p, uuid) ==
    /\ frame[p].migration = uuid
    /\ frame[p].pc \in {"handler", "returned", "raised"}

\* C39: when a call of perform_individual_migration ends, by returning or
\* by raising the handler's exception, the row it made has a terminal
\* status; a row is IN_PROGRESS only while the call that made it is running;
\* and, processes being scheduled fairly, the row of a call whose handler has
\* returned eventually leaves IN_PROGRESS.
C39_TerminalOnceCallEnds ==
    /\ [][\A p \in Procs :
             (frame[p].pc \in {"returned", "raised"} /\ frame'[p].pc = "idle")
                => \E m \in store' :
                      /\ m.uuid = frame[p].migration
                      /\ m.status \in TerminalStatuses]_vars
    /\ [](\A m \in store :
             m.status = STATUS_IN_PROGRESS
                => \E p \in Procs : RunningFor(p, m.uuid))
    /\ \A uuid \in 1..MaxRecords :
          (\E p \in Procs : frame[p].pc = "returned" /\ RunningFor(p, uuid))
             ~> (\E m \in store :
                    m.uuid = uuid /\ m.status # STATUS_IN_PROGRESS)

\* One call has returned and another has raised its handler's exception;
\* the store holds a completed and a failed row and none in progress.
C39_Witness ==
    \E p, q \in Procs : \E m, n \in store :
        /\ frame[p].pc = "idle" /\ frame[p].outcome = "returned"
        /\ frame[q].pc = "idle" /\ frame[q].outcome = "raised"
        /\ frame[q].error = None
        /\ m.status = STATUS_COMPLETED
        /\ n.status = STATUS_FAILED
        /\ \A k \in store : k.status # STATUS_IN_PROGRESS

----------------------------------------------------------------------------
(* C40 *)

\* Process p is in a call of perform_individual_migration that holds row
\* uuid, and takes this step.
WritesOwn(p, uuid) ==
    /\ frame[p].migration = uuid
    /\ frame[p].pc \in {"returned", "raised"}
    /\ frame'[p] # frame[p]

\* C40: a call of perform_individual_migration that gets past its checks
\* adds exactly one row, under a uuid no row has; later it changes only
\* that row, and of it only the status, the destination id and the error
\* message; every other row, earlier failed or in-progress rows of the same
\* resource included, stays as it is, and no row is removed or archived.
C40_WritesOnlyOwnRecord ==
    [][/\ \A p \in Procs :
             (frame[p].pc = "idle" /\ frame'[p].pc = "handler")
                => /\ Cardinality(store') = Cardinality(store) + 1
                   /\ store \subseteq store'
                   /\ \A n \in store' \ store :
                         /\ n.uuid = frame'[p].migration
                         /\ n.uuid \notin Uuids(store)
                         /\ ~n.archived
       /\ (\A p \in Procs : frame'[p].pc = "handler" => frame[p].pc = "handler")
             => Uuids(store') = Uuids(store)
       /\ \A m \in store :
             \/ m \in store'
             \/ \E p \in Procs : \E n \in store' :
                   /\ WritesOwn(p, m.uuid)
                   /\ n.uuid = m.uuid
                   /\ n.archived = m.archived
                   /\ n.service = m.service
                   /\ n.resource_type = m.resource_type
                   /\ n.source_id = m.source_id]_vars

\* A second attempt at a resource has completed; the failed row of the first
\* attempt is in the store as that attempt left it.
C40_Witness ==
    \E m, n \in store :
        /\ m.uuid < n.uuid
        /\ m.resource_type = n.resource_type
        /\ m.source_id = n.source_id
        /\ m.status = STATUS_FAILED
        /\ m.error_message # None
        /\ m.destination_id = 0
        /\ n.status = STATUS_COMPLETED
        /\ ~m.archived /\ ~n.archived

====
